---- MODULE Spec2Model ----
(***************************************************************************)
(* Model of src/src/pages/ProductManagementPage.tsx: the product           *)
(* management page (add / edit / delete of product records through the     *)
(* useProducts hook), the derivation of a product id from its name, and    *)
(* the sorted, category-grouped view.                                      *)
(*                                                                         *)
(* Strings are sequences of character tokens.  A token is a TLA+ string    *)
(* naming one UTF-16 code unit: "a", "A", "7", " ", "-", "&", "." stand    *)
(* for themselves; "a_uml" "o_uml" "u_uml" are the lower-case umlauts,     *)
(* "A_uml" "O_uml" "U_uml" the upper-case ones, "eszett" is U+00DF,        *)
(* "e_acute" is U+00E9, "I_dot" is U+0130 (capital I with dot above) and   *)
(* "comb_dot" is U+0307 (combining dot above).                             *)
(*                                                                         *)
(* An optional value (undefined / null in the source) is a sequence of     *)
(* length 0 or 1: None is undefined, Some(x) is the value x.               *)
(***************************************************************************)
EXTENDS Integers, Sequences, FiniteSets, TLC

VARIABLES
  products,        \* useProducts().products: the in-memory collection (line 10)
  persisted,       \* the remote collection the hook saves to
  calls,           \* the saveProducts promises issued so far, oldest first
  editingProduct,  \* useState<Product | null> (line 11)
  newProduct,      \* useState<Partial<Product>> (lines 12-16)
  error,           \* useProducts().error (line 10)
  nEvents,         \* number of user events dispatched to the page so far
  idName,          \* input of the id derivation under check
  idOut,           \* its result
  viewIn,          \* input collection of the view under check
  viewOut          \* the rendered groups

vars == <<products, persisted, calls, editingProduct, newProduct, error,
          nEvents, idName, idOut, viewIn, viewOut>>

pageVars == <<products, persisted, calls, editingProduct, newProduct, error, nEvents>>

\* ---------------------------------------------------------------- bounds

MaxEvents == 5
MaxCalls == 2
MaxNameLen == 3
MaxViewLen == 3

\* ------------------------------------------------------------- optionals

None == <<>>
Some(x) == <<x>>
IsDefined(o) == o # None
Get(o) == o[1]

\* ------------------------------------------------------- sequence helpers

RECURSIVE Flatten(_)
Flatten(ss) == IF ss = <<>> THEN <<>> ELSE Head(ss) \o Flatten(Tail(ss))

MapSeq(F(_), s) == [i \in 1..Len(s) |-> F(s[i])]

RECURSIVE SeqsUpTo(_, _)
SeqsUpTo(S, n) ==
  IF n = 0 THEN {<<>>}
  ELSE LET shorter == SeqsUpTo(S, n - 1)
       IN  shorter \cup {Append(s, x) : s \in {t \in shorter : Len(t) = n - 1}, x \in S}

Count(P(_), s) == Cardinality({i \in 1..Len(s) : P(s[i])})

\* ----------------------------------------------------------- id derivation

\* The part of [a-z] and [0-9] the modelled names use.
LowerLetters == {"a", "c", "e", "f", "i", "l", "m", "o", "p", "s", "u", "z"}
Digits == {"7"}

\* String.prototype.toLowerCase, one code unit at a time.  U+0130 lower-cases
\* to the two code units U+0069 U+0307 (Unicode SpecialCasing).
LowerChar(c) ==
  CASE c = "A" -> <<"a">>
    [] c = "C" -> <<"c">>
    [] c = "M" -> <<"m">>
    [] c = "O" -> <<"o">>
    [] c = "Z" -> <<"z">>
    [] c = "A_uml" -> <<"a_uml">>
    [] c = "O_uml" -> <<"o_uml">>
    [] c = "U_uml" -> <<"u_uml">>
    [] c = "I_dot" -> <<"i", "comb_dot">>
    [] OTHER -> <<c>>

toLowerCase(s) == Flatten(MapSeq(LowerChar, s))

\* .replace(/[äöüß]/g, match => chars[match] || match)
TranslitChar(c) ==
  CASE c = "a_uml" -> <<"a", "e">>
    [] c = "o_uml" -> <<"o", "e">>
    [] c = "u_uml" -> <<"u", "e">>
    [] c = "eszett" -> <<"s", "s">>
    [] OTHER -> <<c>>

replaceUmlauts(s) == Flatten(MapSeq(TranslitChar, s))

\* .replace(/[^a-z0-9]/g, '-')
HyphenChar(c) == IF c \in LowerLetters \cup Digits THEN c ELSE "-"

replaceNonAlnum(s) == MapSeq(HyphenChar, s)

deriveIdNoLower(name) == replaceNonAlnum(replaceUmlauts(name))

deriveId(name) == replaceNonAlnum(replaceUmlauts(toLowerCase(name)))

\* ------------------------------------------------------------ the products

\* The closed enumeration of categories and the three units the selects offer.
Categories == {"fruits", "vegetables", "salads"}
Units == {"Stueck", "kg", "Bund"}

\* What the user can type or pick.  kgFactor values count in the input's
\* smallest step; Number('') is 0.
NameInputs == {<<>>, <<"A">>, <<"a">>, <<"o_uml">>}
CategoryInputs == {"fruits", "vegetables"}
UnitInputs == Units
KgInputs == {0, 2}

DefaultNewProduct ==
  [name |-> None, category |-> Some("vegetables"), unit |-> Some("Stueck"),
   kgFactor |-> Some(1)]

Apfel ==
  [id |-> <<"a">>, name |-> <<"A">>, category |-> "fruits", unit |-> "kg",
   kgFactor |-> 1, order |-> 1]

Oel ==
  [id |-> <<"o", "e">>, name |-> <<"o_uml">>, category |-> "vegetables",
   unit |-> "Stueck", kgFactor |-> 2, order |-> 2]

\* The collections the page may find when it is first shown.
InitialCollections == {<<>>, <<Apfel, Oel>>}

Ids(coll) == {coll[i].id : i \in 1..Len(coll)}

\* ------------------------------------------------------------- rendering

\* if (error) return <ErrorMessage/>: no form and no product row is shown.
PageShown == ~error

\* A product row is rendered inside the group of its category; the three
\* groups are the keys of categoryNames.
RowShown(i) ==
  /\ PageShown
  /\ i \in 1..Len(products)
  /\ products[i].category \in Categories

IsEditing(i) == IsDefined(editingProduct) /\ Get(editingProduct).id = products[i].id

\* The edit form (and its Speichern / Abbrechen buttons) replaces the row of
\* every product whose id is the draft's id.
EditFormShown == \E i \in 1..Len(products) : RowShown(i) /\ IsEditing(i)

\* The row's Bearbeiten and delete buttons exist in display mode only.
DisplayRowShown(i) == RowShown(i) /\ ~IsEditing(i)

UserEvent == nEvents < MaxEvents /\ nEvents' = nEvents + 1

PureUnchanged == UNCHANGED <<idName, idOut, viewIn, viewOut>>

\* ---------------------------------------------------------- unit coupling

NewKgFactorNeverForced(newUnit) == None

\* const newKgFactor = newUnit === 'kg' ? 1 : undefined
NewKgFactor(newUnit) == IF newUnit = "kg" THEN Some(1) ELSE None

\* a ?? b
Coalesce(a, b) == IF IsDefined(a) THEN a ELSE b

handleUnitChange(newUnit, isNewProduct) ==
  /\ UserEvent
  /\ IF isNewProduct
       THEN /\ PageShown
            /\ newProduct' = [newProduct EXCEPT
                 !.unit = Some(newUnit),
                 !.kgFactor = Coalesce(NewKgFactor(newUnit), newProduct.kgFactor)]
            /\ UNCHANGED editingProduct
       ELSE /\ EditFormShown
            /\ editingProduct' = Some([Get(editingProduct) EXCEPT
                 !.unit = newUnit,
                 !.kgFactor = Get(Coalesce(NewKgFactor(newUnit),
                                           Some(Get(editingProduct).kgFactor)))])
            /\ UNCHANGED newProduct
  /\ UNCHANGED <<products, persisted, calls, error>>
  /\ PureUnchanged

\* ------------------------------------------------- the new-product form

SetNewName(n) ==
  /\ UserEvent /\ PageShown
  /\ newProduct' = [newProduct EXCEPT !.name = Some(n)]
  /\ UNCHANGED <<products, persisted, calls, editingProduct, error>>
  /\ PureUnchanged

SetNewCategory(c) ==
  /\ UserEvent /\ PageShown
  /\ newProduct' = [newProduct EXCEPT !.category = Some(c)]
  /\ UNCHANGED <<products, persisted, calls, editingProduct, error>>
  /\ PureUnchanged

\* The input is disabled while the draft's unit is kg.
SetNewKgFactor(k) ==
  /\ UserEvent /\ PageShown
  /\ newProduct.unit # Some("kg")
  /\ newProduct' = [newProduct EXCEPT !.kgFactor = Some(k)]
  /\ UNCHANGED <<products, persisted, calls, editingProduct, error>>
  /\ PureUnchanged

\* JavaScript truthiness of an optional string.
TruthyName(o) == IsDefined(o) /\ Get(o) # <<>>
TruthyLabel(o) == IsDefined(o) /\ Get(o) # ""

AddGateTruthyKgFactor(np) ==
  /\ TruthyName(np.name) /\ TruthyLabel(np.category) /\ TruthyLabel(np.unit)
  /\ IsDefined(np.kgFactor) /\ Get(np.kgFactor) # 0

\* if (newProduct.name && newProduct.category && newProduct.unit &&
\*     newProduct.kgFactor !== undefined)
AddGate(np) ==
  /\ TruthyName(np.name) /\ TruthyLabel(np.category) /\ TruthyLabel(np.unit)
  /\ IsDefined(np.kgFactor)

newProductComplete(np, coll) ==
  [id |-> deriveId(Get(np.name)), name |-> Get(np.name),
   category |-> Get(np.category), unit |-> Get(np.unit),
   kgFactor |-> Get(np.kgFactor), order |-> Len(coll) + 1]

\* A saveProducts(arg) call: the promise the handler awaits.
Call(op, target, arg) ==
  [op |-> op, target |-> target, arg |-> arg, status |-> "pending"]

\* The Hinzufuegen button is disabled while the draft has no name.
handleAddProduct ==
  /\ UserEvent /\ PageShown
  /\ TruthyName(newProduct.name)
  /\ Len(calls) < MaxCalls
  /\ IF AddGate(newProduct)
       THEN LET rec == newProductComplete(newProduct, products)
            IN  calls' = Append(calls, Call("add", rec.id, Append(products, rec)))
       ELSE UNCHANGED calls
  /\ UNCHANGED <<products, persisted, editingProduct, newProduct, error>>
  /\ PureUnchanged

\* ------------------------------------------------------------ the edit form

handleEditProduct(i) ==
  /\ UserEvent
  /\ DisplayRowShown(i)
  /\ editingProduct' = Some(products[i])
  /\ UNCHANGED <<products, persisted, calls, newProduct, error>>
  /\ PureUnchanged

SetEditName(n) ==
  /\ UserEvent /\ EditFormShown
  /\ editingProduct' = Some([Get(editingProduct) EXCEPT !.name = n])
  /\ UNCHANGED <<products, persisted, calls, newProduct, error>>
  /\ PureUnchanged

SetEditCategory(c) ==
  /\ UserEvent /\ EditFormShown
  /\ editingProduct' = Some([Get(editingProduct) EXCEPT !.category = c])
  /\ UNCHANGED <<products, persisted, calls, newProduct, error>>
  /\ PureUnchanged

\* The input is disabled while the draft's unit is kg.
SetEditKgFactor(k) ==
  /\ UserEvent /\ EditFormShown
  /\ Get(editingProduct).unit # "kg"
  /\ editingProduct' = Some([Get(editingProduct) EXCEPT !.kgFactor = k])
  /\ UNCHANGED <<products, persisted, calls, newProduct, error>>
  /\ PureUnchanged

\* products.map(p => p.id === editingProduct.id ? editingProduct : p)
replaceMatching(coll, draft) ==
  [i \in 1..Len(coll) |-> IF coll[i].id = draft.id THEN draft ELSE coll[i]]

handleSaveEdit ==
  /\ UserEvent /\ EditFormShown
  /\ Len(calls) < MaxCalls
  /\ IF IsDefined(editingProduct)
       THEN LET draft == Get(editingProduct)
            IN  calls' = Append(calls,
                  Call("edit", draft.id, replaceMatching(products, draft)))
       ELSE UNCHANGED calls
  /\ UNCHANGED <<products, persisted, editingProduct, newProduct, error>>
  /\ PureUnchanged

handleCancelEdit ==
  /\ UserEvent /\ EditFormShown
  /\ editingProduct' = None
  /\ UNCHANGED <<products, persisted, calls, newProduct, error>>
  /\ PureUnchanged

\* -------------------------------------------------------------- the delete

\* products.filter(p => p.id !== productId)
withoutId(coll, productId) == SelectSeq(coll, LAMBDA p : p.id # productId)

\* `confirmed` is the answer of window.confirm.
handleDeleteProduct(i, confirmed) ==
  /\ UserEvent
  /\ DisplayRowShown(i)
  /\ IF confirmed
       THEN /\ Len(calls) < MaxCalls
            /\ calls' = Append(calls,
                 Call("delete", products[i].id, withoutId(products, products[i].id)))
       ELSE UNCHANGED calls
  /\ UNCHANGED <<products, persisted, editingProduct, newProduct, error>>
  /\ PureUnchanged

\* ------------------------------------------------ the awaited saveProducts

Pending == {i \in 1..Len(calls) : calls[i].status = "pending"}

\* The hook's writes complete in the order they were issued.
OldestPending == CHOOSE i \in Pending : \A j \in Pending : i <= j

afterSaveEditAlways(ok, draft) == None

\* await saveProducts(updatedProducts); setEditingProduct(null);
\* a rejected promise throws at the await and the rest is skipped.
afterSaveEdit(ok, draft) == IF ok THEN None ELSE draft

\* await saveProducts(updatedProducts); setNewProduct({...defaults});
afterAdd(ok, draft) == IF ok THEN DefaultNewProduct ELSE draft

\* The part of the handler that runs when its promise settles.
Continuation(c, ok) ==
  /\ editingProduct' =
       IF c.op = "edit" THEN afterSaveEdit(ok, editingProduct) ELSE editingProduct
  /\ newProduct' =
       IF c.op = "add" THEN afterAdd(ok, newProduct) ELSE newProduct

\* saveProducts replaces the whole remote collection, and the hook hands the
\* refreshed collection back as `products`.
saveFulfilled ==
  /\ Pending # {}
  /\ LET i == OldestPending
         c == calls[i]
     IN  /\ calls' = [calls EXCEPT ![i].status = "fulfilled"]
         /\ persisted' = c.arg
         /\ products' = c.arg
         /\ Continuation(c, TRUE)
  /\ UNCHANGED <<error, nEvents>>
  /\ PureUnchanged

\* A failed save leaves the remote collection alone; the hook may report it
\* through `error`.
saveRejected(reported) ==
  /\ Pending # {}
  /\ LET i == OldestPending
         c == calls[i]
     IN  /\ calls' = [calls EXCEPT ![i].status = "rejected"]
         /\ Continuation(c, FALSE)
  /\ error' = (error \/ reported)
  /\ UNCHANGED <<products, persisted, nEvents>>
  /\ PureUnchanged

\* ------------------------------------------------------ the page's behaviour

Init ==
  /\ products \in InitialCollections
  /\ persisted = products
  /\ calls = <<>>
  /\ editingProduct = None
  /\ newProduct = DefaultNewProduct
  /\ error = FALSE
  /\ nEvents = 0
  /\ idName = <<>>
  /\ idOut = None
  /\ viewIn = <<>>
  /\ viewOut = None

Next ==
  \/ \E n \in NameInputs : SetNewName(n)
  \/ \E c \in CategoryInputs : SetNewCategory(c)
  \/ \E u \in UnitInputs, isNewProduct \in BOOLEAN : handleUnitChange(u, isNewProduct)
  \/ \E k \in KgInputs : SetNewKgFactor(k)
  \/ handleAddProduct
  \/ \E i \in 1..Len(products) : handleEditProduct(i)
  \/ \E n \in NameInputs : SetEditName(n)
  \/ \E c \in CategoryInputs : SetEditCategory(c)
  \/ \E k \in KgInputs : SetEditKgFactor(k)
  \/ handleSaveEdit
  \/ handleCancelEdit
  \/ \E i \in 1..Len(products), confirmed \in BOOLEAN : handleDeleteProduct(i, confirmed)
  \/ saveFulfilled
  \/ \E reported \in BOOLEAN : saveRejected(reported)

Spec == Init /\ [][Next]_vars

PageIdle ==
  /\ products = <<>> /\ persisted = <<>> /\ calls = <<>>
  /\ editingProduct = None /\ newProduct = DefaultNewProduct
  /\ error = FALSE /\ nEvents = 0

\* ------------------------------------------- the id derivation on its own

\* The characters names are drawn from: letters of both cases, a digit,
\* umlauts of both cases, eszett, a space, punctuation, a letter the
\* transliteration does not know, and U+0130.
NameChars == {"a", "A", "7", "a_uml", "O_uml", "eszett", " ", "&", "e_acute", "I_dot"}

ApplyDeriveId ==
  /\ idOut = None
  /\ idOut' = Some(deriveId(idName))
  /\ UNCHANGED <<idName, viewIn, viewOut>>
  /\ UNCHANGED pageVars

InitId ==
  /\ PageIdle
  /\ idName \in SeqsUpTo(NameChars, MaxNameLen)
  /\ idOut = None
  /\ viewIn = <<>>
  /\ viewOut = None

NextId == ApplyDeriveId

SpecId == InitId /\ [][NextId]_vars

\* ------------------------------------------------------ the grouped view

\* const categoryOrder = { fruits: 1, vegetables: 2, salads: 3 }
categoryOrder(c) ==
  CASE c = "fruits" -> 1
    [] c = "vegetables" -> 2
    [] c = "salads" -> 3

\* Collation weights of a character under the German locale: the base
\* letter first, then the accent, then the case (lower case first).
Primary(c) ==
  CASE c \in {"a", "A", "a_uml", "A_uml"} -> 1
    [] c \in {"o", "O", "o_uml", "O_uml"} -> 2
    [] c \in {"z", "Z"} -> 3
Secondary(c) == IF c \in {"a_uml", "A_uml", "o_uml", "O_uml"} THEN 1 ELSE 0
Tertiary(c) == IF c \in {"A", "A_uml", "O", "O_uml", "Z"} THEN 1 ELSE 0

\* Lexicographic comparison of two weight sequences: -1, 0 or 1.
RECURSIVE CompareWeights(_, _)
CompareWeights(x, y) ==
  IF x = <<>> /\ y = <<>> THEN 0
  ELSE IF x = <<>> THEN -1
  ELSE IF y = <<>> THEN 1
  ELSE IF Head(x) < Head(y) THEN -1
  ELSE IF Head(x) > Head(y) THEN 1
  ELSE CompareWeights(Tail(x), Tail(y))

\* a.localeCompare(b, 'de')
localeCompare(a, b) ==
  LET p == CompareWeights(MapSeq(Primary, a), MapSeq(Primary, b))
      s == CompareWeights(MapSeq(Secondary, a), MapSeq(Secondary, b))
      t == CompareWeights(MapSeq(Tertiary, a), MapSeq(Tertiary, b))
  IN  IF p # 0 THEN p ELSE IF s # 0 THEN s ELSE t

\* The comparator as Array.prototype.sort sees it: categoryOrder[x] of an
\* unknown category is undefined, the difference is NaN, and sort takes a
\* NaN result as +0.
SortCompare(a, b) ==
  IF a.category # b.category
    THEN IF a.category \in Categories /\ b.category \in Categories
           THEN categoryOrder(a.category) - categoryOrder(b.category)
           ELSE 0
    ELSE localeCompare(a.name, b.name)

\* ECMAScript's "consistent comparator" for the elements of coll.
ConsistentComparator(coll) ==
  LET S == {coll[i] : i \in 1..Len(coll)}
      Eq(a, b) == SortCompare(a, b) = 0
      Lt(a, b) == SortCompare(a, b) < 0
      Gt(a, b) == SortCompare(a, b) > 0
  IN  /\ \A a \in S : Eq(a, a)
      /\ \A a, b \in S : (Eq(a, b) => Eq(b, a)) /\ (Lt(a, b) <=> Gt(b, a))
      /\ \A a, b, c \in S :
           /\ (Eq(a, b) /\ Eq(b, c)) => Eq(a, c)
           /\ (Lt(a, b) /\ Lt(b, c)) => Lt(a, c)
           /\ (Gt(a, b) /\ Gt(b, c)) => Gt(a, c)

\* x goes behind every element that does not sort after it.
RECURSIVE InsertSorted(_, _)
InsertSorted(x, s) ==
  IF s = <<>> THEN <<x>>
  ELSE IF SortCompare(Head(s), x) > 0 THEN <<x>> \o s
  ELSE <<Head(s)>> \o InsertSorted(x, Tail(s))

RECURSIVE StableSort(_)
StableSort(coll) ==
  IF coll = <<>> THEN <<>>
  ELSE InsertSorted(coll[Len(coll)], StableSort(SubSeq(coll, 1, Len(coll) - 1)))

Reorderings(coll) ==
  {[i \in 1..Len(coll) |-> coll[p[i]]] : p \in Permutations(1..Len(coll))}

\* [...products].sort(comparator): the stable sort when the comparator is
\* consistent for the elements, else an order the engine chooses.
sortedProducts(coll) ==
  IF ConsistentComparator(coll) THEN {StableSort(coll)} ELSE Reorderings(coll)

\* groupedProducts[category] after the reduce; a key never pushed to is
\* undefined and renders nothing.
groupedProducts(sorted, category) == SelectSeq(sorted, LAMBDA p : p.category = category)

\* Object.keys(categoryNames)
CategoryKeys == <<"fruits", "vegetables", "salads">>

RenderedGroups(sorted) ==
  [k \in 1..Len(CategoryKeys) |->
     [category |-> CategoryKeys[k],
      products |-> groupedProducts(sorted, CategoryKeys[k])]]

ViewNames == {<<"A">>, <<"o", "z">>, <<"o_uml", "a">>, <<"z">>}
ViewCategories == Categories \cup {"other"}

ViewProducts ==
  {[id |-> deriveId(n), name |-> n, category |-> c, unit |-> "Stueck",
    kgFactor |-> 1, order |-> 1] : n \in ViewNames, c \in ViewCategories}

BuildView ==
  /\ viewOut = None
  /\ \E sorted \in sortedProducts(viewIn) : viewOut' = Some(RenderedGroups(sorted))
  /\ UNCHANGED <<viewIn, idName, idOut>>
  /\ UNCHANGED pageVars

InitView ==
  /\ PageIdle
  /\ idName = <<>>
  /\ idOut = None
  /\ viewIn \in SeqsUpTo(ViewProducts, MaxViewLen)
  /\ viewOut = None

NextView == BuildView

SpecView == InitView /\ [][NextView]_vars

\* ================================================================ claims

RemoveAt(s, i) == SubSeq(s, 1, i - 1) \o SubSeq(s, i + 1, Len(s))

\* The call a handler has just issued.
IssuedCall == calls'[Len(calls')]
IssuesOneCall == Len(calls') = Len(calls) + 1 /\ SubSeq(calls', 1, Len(calls)) = calls

\* The step settles call i as `status`.
Settles(i, status) ==
  /\ i \in Pending
  /\ Len(calls') = Len(calls)
  /\ calls'[i].status = status

\* C1: in every reachable state no two records of the persisted collection
\* have the same id.
C1_PersistedIdsDistinct ==
  \A i, j \in 1..Len(persisted) : i # j => persisted[i].id # persisted[j].id

\* C2: a confirmed handleDeleteProduct issues a save of the collection with
\* exactly one record fewer, the record with the id gone and every other
\* record unchanged in the same relative position; a declined confirmation
\* issues no save.
C2_DeleteRemovesExactlyOne ==
  [][\A i \in 1..Len(products) :
       /\ handleDeleteProduct(i, TRUE) =>
            /\ IssuesOneCall
            /\ Len(IssuedCall.arg) = Len(products) - 1
            /\ IssuedCall.arg = RemoveAt(products, i)
            /\ products[i].id \notin Ids(IssuedCall.arg)
       /\ handleDeleteProduct(i, FALSE) => calls' = calls]_vars

\* C3: at most one saveProducts call is pending at any time.
C3_AtMostOnePending == Cardinality(Pending) <= 1

\* C4: the step in which a save issued by handleSaveEdit or handleAddProduct
\* fails leaves editingProduct and newProduct as they were; the edit draft
\* becomes null only by a successfully completed edit save (or by the user's
\* own events), and the new-product draft loses its name only by a
\* successfully completed add save.
C4_FailedSaveKeepsDraft ==
  [][/\ \A i \in Pending :
          (Settles(i, "rejected") /\ calls[i].op \in {"edit", "add"}) =>
             /\ editingProduct' = editingProduct
             /\ newProduct' = newProduct
     /\ (IsDefined(editingProduct) /\ ~IsDefined(editingProduct')) =>
          \/ \E i \in Pending : Settles(i, "fulfilled") /\ calls[i].op = "edit"
          \/ nEvents' = nEvents + 1
     /\ (IsDefined(newProduct.name) /\ ~IsDefined(newProduct'.name)) =>
          \E i \in Pending : Settles(i, "fulfilled") /\ calls[i].op = "add"]_vars

\* An edit save and an add save have both failed and both drafts are still held.
C4_Witness ==
  /\ \E i \in 1..Len(calls) : calls[i].op = "edit" /\ calls[i].status = "rejected"
  /\ \E i \in 1..Len(calls) : calls[i].op = "add" /\ calls[i].status = "rejected"
  /\ IsDefined(editingProduct)
  /\ TruthyName(newProduct.name)

KgDraftsHaveFactorOne ==
  /\ newProduct.unit = Some("kg") => newProduct.kgFactor = Some(1)
  /\ (IsDefined(editingProduct) /\ Get(editingProduct).unit = "kg") =>
       Get(editingProduct).kgFactor = 1

\* C5: for both drafts, a unit change to kg sets kgFactor to 1 whatever it
\* was, a change to another unit leaves kgFactor as it was, and every
\* reachable draft with unit kg has kgFactor 1.
C5_UnitCoupling ==
  /\ []KgDraftsHaveFactorOne
  /\ [][\A u \in UnitInputs :
          /\ handleUnitChange(u, TRUE) =>
               /\ newProduct'.unit = Some(u)
               /\ newProduct'.kgFactor =
                    IF u = "kg" THEN Some(1) ELSE newProduct.kgFactor
          /\ handleUnitChange(u, FALSE) =>
               /\ Get(editingProduct').unit = u
               /\ Get(editingProduct').kgFactor =
                    IF u = "kg" THEN 1 ELSE Get(editingProduct).kgFactor]_vars

\* The edit draft of a product stored with unit Stueck and kgFactor 2 has
\* been switched to kg, and the new-product draft holds a non-kg unit with
\* a kgFactor other than 1.
C5_Witness ==
  /\ IsDefined(editingProduct)
  /\ Get(editingProduct).unit = "kg"
  /\ \E i \in 1..Len(products) :
       /\ products[i].id = Get(editingProduct).id
       /\ products[i].unit = "Stueck"
       /\ products[i].kgFactor = 2
  /\ newProduct.unit = Some("Bund")
  /\ newProduct.kgFactor = Some(0)

\* A draft with a non-empty name, a category, a unit and a defined kgFactor.
SubmittableDraft(np) ==
  /\ IsDefined(np.name) /\ Len(Get(np.name)) > 0
  /\ IsDefined(np.category) /\ Get(np.category) \in Categories
  /\ IsDefined(np.unit) /\ Get(np.unit) \in Units
  /\ IsDefined(np.kgFactor)

\* C6: for every such draft (kgFactor 0 included) handleAddProduct issues one
\* saveProducts call whose argument is the current collection, unchanged and
\* in order, followed by one new record with the draft's fields, the id
\* derived from the name and order = previous size + 1.
C6_AddAppendsOneRecord ==
  [][(handleAddProduct /\ SubmittableDraft(newProduct)) =>
       /\ IssuesOneCall
       /\ IssuedCall.op = "add"
       /\ IssuedCall.status = "pending"
       /\ Len(IssuedCall.arg) = Len(products) + 1
       /\ SubSeq(IssuedCall.arg, 1, Len(products)) = products
       /\ IssuedCall.arg[Len(products) + 1] =
            [id |-> deriveId(Get(newProduct.name)),
             name |-> Get(newProduct.name),
             category |-> Get(newProduct.category),
             unit |-> Get(newProduct.unit),
             kgFactor |-> Get(newProduct.kgFactor),
             order |-> Len(products) + 1]]_vars

\* An add with kgFactor 0 was issued on a non-empty collection.
C6_Witness ==
  \E i \in 1..Len(calls) :
    /\ calls[i].op = "add"
    /\ Len(calls[i].arg) >= 2
    /\ calls[i].arg[Len(calls[i].arg)].kgFactor = 0
    /\ calls[i].arg[Len(calls[i].arg)].order = Len(calls[i].arg)

\* The characters of a lower-cased name that the transliteration replaces by
\* two letters, and their number in a string.
IsTransliterated(c) == c \in {"a_uml", "o_uml", "u_uml", "eszett"}
TransliteratedIn(s) == Count(IsTransliterated, s)
OnlyIdChars(id) == \A i \in 1..Len(id) : id[i] \in LowerLetters \cup Digits \cup {"-"}

\* One pass over the lower-cased name, character by character.
ExpectedIdChar(c) ==
  IF IsTransliterated(c)
    THEN (CASE c = "a_uml" -> <<"a", "e">>
            [] c = "o_uml" -> <<"o", "e">>
            [] c = "u_uml" -> <<"u", "e">>
            [] c = "eszett" -> <<"s", "s">>)
    ELSE IF c \in LowerLetters \cup Digits THEN <<c>> ELSE <<"-">>

RECURSIVE ExpectedId(_)
ExpectedId(lower) ==
  IF lower = <<>> THEN <<>> ELSE ExpectedIdChar(Head(lower)) \o ExpectedId(Tail(lower))

Muesli == <<"M", "u_uml", "s", "l", "i">>
AepfelUndCo == <<"A_uml", "p", "f", "e", "l", " ", "&", " ", "C", "o", ".">>

ExamplesHold ==
  /\ deriveId(Muesli) = <<"m", "u", "e", "s", "l", "i">>
  /\ deriveId(AepfelUndCo) =
       <<"a", "e", "p", "f", "e", "l", "-", "-", "-", "c", "o", "-">>

\* C7 as claimed: the derived id is the lower-cased name with the umlauts and
\* eszett transliterated and every other character outside [a-z0-9] replaced
\* by one hyphen; it holds only characters of [a-z0-9-]; and its length is the
\* name's length plus the number of transliterated characters.
C7_LengthFromName ==
  IsDefined(idOut) =>
    /\ Get(idOut) = ExpectedId(toLowerCase(idName))
    /\ OnlyIdChars(Get(idOut))
    /\ Len(Get(idOut)) = Len(idName) + TransliteratedIn(toLowerCase(idName))

\* C7 amended: as claimed, but the length is the length of the LOWER-CASED
\* name plus the number of transliterated characters.
C7_DerivedId ==
  /\ ExamplesHold
  /\ IsDefined(idOut) =>
       /\ Get(idOut) = ExpectedId(toLowerCase(idName))
       /\ OnlyIdChars(Get(idOut))
       /\ Len(Get(idOut)) =
            Len(toLowerCase(idName)) + TransliteratedIn(toLowerCase(idName))

\* The id of a name holding an upper-case umlaut, a punctuation mark and
\* U+0130 has been derived.
C7_Witness ==
  /\ idName = <<"O_uml", "&", "I_dot">>
  /\ idOut = Some(<<"o", "e", "-", "i", "-">>)

Occurrences(s, x) == Cardinality({i \in 1..Len(s) : s[i] = x})

\* C8: the view holds exactly the groups fruits, vegetables, salads in that
\* order, each present even when empty; each group holds exactly the products
\* of its category, each once, ascending by name under the collation; a
\* product of another category is in no group.
C8_GroupsSortedByName ==
  IsDefined(viewOut) =>
    LET groups == Get(viewOut)
    IN  /\ Len(groups) = 3
        /\ groups[1].category = "fruits"
        /\ groups[2].category = "vegetables"
        /\ groups[3].category = "salads"
        /\ \A k \in 1..3 :
             LET g == groups[k].products
             IN  /\ \A i \in 1..Len(g) : g[i].category = groups[k].category
                 /\ \A i \in 1..Len(viewIn) :
                      viewIn[i].category = groups[k].category =>
                        Occurrences(g, viewIn[i]) = Occurrences(viewIn, viewIn[i])
                 /\ \A i, j \in 1..Len(g) :
                      i < j => localeCompare(g[i].name, g[j].name) <= 0

AllCategoriesKnown == \A i \in 1..Len(viewIn) : viewIn[i].category \in Categories

\* The same statement for the collections whose categories are all known.
C8_KnownCategoriesSorted == AllCategoriesKnown => C8_GroupsSortedByName

\* C9: handleSaveEdit issues a save of a collection of the same length and
\* order in which the record with the draft's id is replaced by the draft and
\* every other record is unchanged; no record's id changes; handleCancelEdit
\* discards the draft with no save and no change of the collection.
C9_SaveEditReplacesOneRecord ==
  [][/\ handleSaveEdit =>
          /\ IssuesOneCall
          /\ Len(IssuedCall.arg) = Len(products)
          /\ \E k \in 1..Len(products) :
               /\ products[k].id = Get(editingProduct).id
               /\ IssuedCall.arg = [products EXCEPT ![k] = Get(editingProduct)]
          /\ \A i \in 1..Len(products) : IssuedCall.arg[i].id = products[i].id
     /\ handleCancelEdit =>
          /\ ~IsDefined(editingProduct')
          /\ calls' = calls
          /\ products' = products
          /\ persisted' = persisted]_vars

\* C10: a record leaves the persisted collection only when a delete of its id
\* completes, and a record (re)appears in it only when an add of its id
\* completes.
C10_NoLostUpdate ==
  [][/\ \A id \in Ids(persisted) \ Ids(persisted') :
          \E i \in Pending :
            Settles(i, "fulfilled") /\ calls[i].op = "delete" /\ calls[i].target = id
     /\ \A id \in Ids(persisted') \ Ids(persisted) :
          \E i \in Pending :
            Settles(i, "fulfilled") /\ calls[i].op = "add" /\ calls[i].target = id]_vars

====
